---------------------------- MODULE Spec2Model ----------------------------
(* A model of cert_verifier/connectors.py: the transaction lookup          *)
(* connectors (factory, mock, fallback, blockchain.info, blockcypher,      *)
(* etherscan) and the issuer information resolver get_issuer_info.         *)
(* Every remote answer (HTTP status, body, transport failure) is an input  *)
(* chosen by the environment.                                              *)
EXTENDS Integers, Sequences, FiniteSets, TLC

(***************************************************************************)
(* Bounds of the model.                                                    *)
(***************************************************************************)
MaxOutputs == 2
MaxPayloadLen == 6
MaxAdapters == 2
MaxKeys == 2
MaxRevoked == 2

(***************************************************************************)
(* Python values.  Every value is a record with a `kind' field so that     *)
(* values of different Python types can be compared.                       *)
(***************************************************************************)
None == [kind |-> "None"]
True == [kind |-> "True"]

\* TransactionData(signing_key, script, date_time_utc, revoked_addresses)
TransactionData(signing_key, script, time, revoked) ==
    [kind |-> "TransactionData", signing_key |-> signing_key, script |-> script,
     time |-> time, revoked_addresses |-> revoked]

\* Python truthiness of a value returned by a connector's lookup_tx
Truthy(v) == v.kind # "None"

\* Outcome of a call: still running, returned a value, or raised an
\* exception (class name, message, and for the fallback aggregate the list
\* of exceptions it was built with)
Exc(type, msg, causes) == [kind |-> "raise", type |-> type, msg |-> msg, causes |-> causes]
Ret(v) == [kind |-> "return", value |-> v]
Running == [kind |-> "running"]

InvalidTransactionError(msg) == Exc("InvalidTransactionError", msg, <<>>)
PyError(type, msg) == Exc(type, msg, <<>>)

(***************************************************************************)
(* HTTP answers.  requests.get either raises (transport failure) or gives  *)
(* a response with a status code and a body.                               *)
(***************************************************************************)
TransportFailure == [net |-> "raise"]
HttpResponse(status, body) == [net |-> "response", status_code |-> status, body |-> body]
StatusCodes == {200, 404}

(***************************************************************************)
(* Chains of cert_core, with their blockchain type.  ethereum_goerli and   *)
(* litecoin_mainnet stand for chains no connector has a mapping for.       *)
(***************************************************************************)
Chain(name, type) == [name |-> name, blockchain_type |-> type]
bitcoin_mainnet == Chain("bitcoin_mainnet", "bitcoin")
bitcoin_testnet == Chain("bitcoin_testnet", "bitcoin")
bitcoin_regtest == Chain("bitcoin_regtest", "bitcoin")
mockchain == Chain("mockchain", "mock")
ethereum_mainnet == Chain("ethereum_mainnet", "ethereum")
ethereum_ropsten == Chain("ethereum_ropsten", "ethereum")
ethereum_goerli == Chain("ethereum_goerli", "ethereum")
litecoin_mainnet == Chain("litecoin_mainnet", "litecoin")

Chains == {bitcoin_mainnet, bitcoin_testnet, bitcoin_regtest, mockchain,
           ethereum_mainnet, ethereum_ropsten, ethereum_goerli, litecoin_mainnet}

TxIds == {"tx1", "tx2"}
OptionsSet == {[given |-> FALSE, token |-> ""], [given |-> TRUE, token |-> "tok"]}

(***************************************************************************)
(* Strings that the code slices are sequences of characters.               *)
(***************************************************************************)
HexDigits == <<"6", "a", "2", "0", "d", "e", "f", "1", "3", "5", "7", "9", "b", "c", "4", "8">>
Digit(i) == HexDigits[((i - 1) % Len(HexDigits)) + 1]
HexString(n) == [i \in 1..n |-> Digit(i)]

\* s[n:] of Python
Drop(s, n) == IF Len(s) <= n THEN <<>> ELSE SubSeq(s, n + 1, Len(s))

\* payloads of a zero-value output: the contiguous pieces of a hex string
Payloads ==
    {<<>>} \cup {SubSeq(HexString(MaxPayloadLen), i, j) :
                    i \in 1..MaxPayloadLen, j \in 1..MaxPayloadLen}

Addresses == {"addr1", "addr2"}

\* d.get(f, default) of Python
Get(d, f, default) == IF f \in DOMAIN d THEN d[f] ELSE default

(***************************************************************************)
(* Transactions as the two UTXO providers render them.  A zero-value       *)
(* output carries the payload; the other outputs carry a spent flag and    *)
(* an address; an output may lack its value (the code defaults it to 1).   *)
(***************************************************************************)
BlockchainInfoOutputs ==
    {[value |-> 0, script |-> p] : p \in Payloads}
    \cup {[value |-> 1, spent |-> s, addr |-> a] : s \in BOOLEAN, a \in Addresses}
    \cup {[addr |-> "addr1"]}

BlockcypherOutputs ==
    {[value |-> 0, data_hex |-> p] : p \in Payloads}
    \cup {[value |-> 1, spent_by |-> s, addresses |-> <<a>>] : s \in BOOLEAN, a \in Addresses}
    \cup {[addresses |-> <<"addr1">>]}

SeqsUpTo(S, n) == UNION {[1..k -> S] : k \in 0..n}

BlockchainInfoBodies ==
    {[time |-> 1500000000, inputs |-> i, out |-> o] :
        i \in {<<>>, <<[prev_out |-> [addr |-> "issuer1"]]>>},
        o \in SeqsUpTo(BlockchainInfoOutputs, MaxOutputs)}

BlockcypherBodies ==
    {[received |-> 1500000000, inputs |-> i, outputs |-> o] :
        i \in {<<>>, <<[addresses |-> <<"issuer1">>]>>},
        o \in SeqsUpTo(BlockcypherOutputs, MaxOutputs)}

\* number of zero-value outputs of a list of outputs
ZeroValueOutputs(outs) == {i \in 1..Len(outs) : Get(outs[i], "value", 1) = 0}

(***************************************************************************)
(* BlockchainInfoConnector.parse_tx                                        *)
(***************************************************************************)
\* the body of the for loop over json_response['out']: acc.script is <<>>
\* for None and <<s>> once a script s was assigned
BlockchainInfoStep_KeepsPrefix(acc, o) ==
    IF Get(o, "value", 1) = 0
    THEN [acc EXCEPT !.script = <<o.script>>]
    ELSE IF Get(o, "spent", FALSE)
         THEN [acc EXCEPT !.revoked = @ \cup {o.addr}]
         ELSE acc

BlockchainInfoStep(acc, o) ==
    IF Get(o, "value", 1) = 0
    THEN [acc EXCEPT !.script = <<Drop(o.script, 4)>>]
    ELSE IF Get(o, "spent", FALSE)
         THEN [acc EXCEPT !.revoked = @ \cup {o.addr}]
         ELSE acc

RECURSIVE BlockchainInfoScan(_, _, _)
BlockchainInfoScan(outs, i, acc) ==
    IF i > Len(outs) THEN acc
    ELSE BlockchainInfoScan(outs, i + 1, BlockchainInfoStep(acc, outs[i]))

\* `not script' of Python: None or the empty string
NotScript(script) == script = <<>> \/ script[1] = <<>>

BlockchainInfo_parse_tx(json_response) ==
    IF json_response.inputs = <<>>
    THEN PyError("IndexError", "list index out of range")
    ELSE LET time == json_response.time
             signing_key == json_response.inputs[1].prev_out.addr
             acc == BlockchainInfoScan(json_response.out, 1,
                                       [script |-> <<>>, revoked |-> {}])
         IN  IF NotScript(acc.script)
             THEN InvalidTransactionError("transaction response is missing op_return script")
             ELSE Ret(TransactionData(signing_key, acc.script[1], time, acc.revoked))

(***************************************************************************)
(* BlockcypherConnector.parse_tx                                           *)
(***************************************************************************)
BlockcypherStep(acc, o) ==
    IF Get(o, "value", 1) = 0
    THEN [acc EXCEPT !.script = <<o.data_hex>>]
    ELSE IF Get(o, "spent_by", FALSE)
         THEN [acc EXCEPT !.revoked = @ \cup {o.addresses[1]}]
         ELSE acc

RECURSIVE BlockcypherScan(_, _, _)
BlockcypherScan(outs, i, acc) ==
    IF i > Len(outs) THEN acc
    ELSE BlockcypherScan(outs, i + 1, BlockcypherStep(acc, outs[i]))

Blockcypher_parse_tx(json_response) ==
    IF json_response.inputs = <<>>
    THEN PyError("IndexError", "list index out of range")
    ELSE LET time == json_response.received
             signing_key == json_response.inputs[1].addresses[1]
             acc == BlockcypherScan(json_response.outputs, 1,
                                    [script |-> <<>>, revoked |-> {}])
         IN  IF NotScript(acc.script)
             THEN InvalidTransactionError("transaction response is missing op_return script")
             ELSE Ret(TransactionData(signing_key, acc.script[1], time, acc.revoked))

\* TransactionLookupConnector.parse_tx, inherited by an adapter that does
\* not override it
Base_parse_tx(json_response) == Ret(None)


(***************************************************************************)
(* JSON values whose truth value or absence the code tests: null is None,  *)
(* a string is Str(s), a list is List(items), an object is Dict(d) with d  *)
(* a function from its keys.                                               *)
(***************************************************************************)
Str(s) == [kind |-> "str", s |-> s]
List(items) == [kind |-> "list", items |-> items]
Dict(d) == [kind |-> "dict", d |-> d]
EmptyDict == Dict(<<>>)

\* `not v' of Python
Not(v) ==
    \/ v.kind = "None"
    \/ v.kind = "str" /\ v.s = <<>>
    \/ v.kind = "list" /\ v.items = <<>>
    \/ v.kind = "dict" /\ DOMAIN v.d = {}

\* int(s, base) of Python for a string of digits, with an optional 0x
DigitValue(c) == CHOOSE v \in 0..15 :
    <<"0", "1", "2", "3", "4", "5", "6", "7", "8", "9", "a", "b", "c", "d", "e", "f">>[v + 1] = c

RECURSIVE ParseDigits(_, _, _)
ParseDigits(chars, base, acc) ==
    IF chars = <<>> THEN acc
    ELSE ParseDigits(Tail(chars), base, acc * base + DigitValue(Head(chars)))

ParseInt(chars, base) ==
    IF base = 16 /\ Len(chars) >= 2 /\ SubSeq(chars, 1, 2) = <<"0", "x">>
    THEN ParseDigits(Drop(chars, 2), base, 0)
    ELSE ParseDigits(chars, base, 0)

(***************************************************************************)
(* Connector objects and their constructors.  A constructor returns        *)
(* Ret(object) or the exception it raises.                                 *)
(***************************************************************************)
MockConnector(chain) ==
    Ret([class |-> "MockConnector", chain |-> chain])

BlockchainInfoConnector(chain) ==
    IF chain = bitcoin_testnet
    THEN Ret([class |-> "BlockchainInfoConnector",
              url |-> "https://testnet.blockchain.info/rawtx/%s?cors=true"])
    ELSE IF chain = bitcoin_mainnet
    THEN Ret([class |-> "BlockchainInfoConnector",
              url |-> "https://blockchain.info/rawtx/%s?cors=true"])
    ELSE PyError("Exception", "unsupported chain requested with BlockchainInfo collector")

BlockcypherConnector(chain) ==
    IF chain = bitcoin_testnet
    THEN Ret([class |-> "BlockcypherConnector",
              url |-> "http://api.blockcypher.com/v1/btc/test3/txs/%s?limit=100"])
    ELSE IF chain = bitcoin_mainnet
    THEN Ret([class |-> "BlockcypherConnector",
              url |-> "https://api.blockcypher.com/v1/btc/main/txs/%s?limit=100"])
    ELSE PyError("Exception", "unsupported chain requested with blockcypher collector")

\* the list display [BlockchainInfoConnector(chain), BlockcypherConnector(chain)]
\* is evaluated left to right; the first constructor that raises ends it
FallbackConnector(chain) ==
    LET first == BlockchainInfoConnector(chain)
        second == BlockcypherConnector(chain)
    IN  IF first.kind = "raise" THEN first
        ELSE IF second.kind = "raise" THEN second
        ELSE Ret([class |-> "FallbackConnector", chain |-> chain,
                  connectors |-> <<first.value, second.value>>])

EtherscanConnector_DefaultsToMainnet(chain, api_key) ==
    LET url_prefix == IF chain = ethereum_ropsten
                      THEN "https://ropsten.etherscan.io"
                      ELSE "https://api.etherscan.io"
    IN  Ret([class |-> "EtherscanConnector",
             url |-> <<url_prefix, "eth_getTransactionByHash", api_key>>,
             timestamp_url |-> <<url_prefix, "getblockreward", api_key>>])

EtherscanConnector(chain, api_key) ==
    IF chain \in {ethereum_mainnet, ethereum_ropsten}
    THEN LET url_prefix == IF chain = ethereum_mainnet
                           THEN "https://api.etherscan.io"
                           ELSE "https://ropsten.etherscan.io"
         IN  Ret([class |-> "EtherscanConnector",
                  url |-> <<url_prefix, "eth_getTransactionByHash", api_key>>,
                  timestamp_url |-> <<url_prefix, "getblockreward", api_key>>])
    ELSE PyError("Exception", "unsupported chain requested with Etherscan collector")

createTransactionLookupConnector_MockchainOnly(chain, options) ==
    IF chain = mockchain
    THEN MockConnector(chain)
    ELSE IF chain.blockchain_type = "ethereum"
    THEN LET etherscan_api_token == IF options.given THEN options.token ELSE ""
         IN  EtherscanConnector(chain, etherscan_api_token)
    ELSE FallbackConnector(chain)

createTransactionLookupConnector(chain, options) ==
    IF chain = mockchain \/ chain = bitcoin_regtest
    THEN MockConnector(chain)
    ELSE IF chain.blockchain_type = "ethereum"
    THEN LET etherscan_api_token == IF options.given THEN options.token ELSE ""
         IN  EtherscanConnector(chain, etherscan_api_token)
    ELSE FallbackConnector(chain)

\* an adapter derived from TransactionLookupConnector that sets its url and
\* inherits parse_tx
InheritingConnector ==
    [class |-> "TransactionLookupConnector", url |-> "https://explorer.example/tx/%s"]

\* a network request: the url template and what was substituted into it
Request(url, arg) == [url |-> url, arg |-> arg]

(***************************************************************************)
(* TransactionLookupConnector.fetch_tx and lookup_tx of the UTXO adapters  *)
(***************************************************************************)
fetch_tx(response, txid) ==
    IF response.net = "raise"
    THEN PyError("ConnectionError", "requests.get failed")
    ELSE IF response.status_code # 200
    THEN InvalidTransactionError("error looking up transaction_id")
    ELSE Ret(response.body)

parse_tx(connector, json_response) ==
    IF connector.class = "BlockchainInfoConnector"
    THEN BlockchainInfo_parse_tx(json_response)
    ELSE IF connector.class = "BlockcypherConnector"
    THEN Blockcypher_parse_tx(json_response)
    ELSE Base_parse_tx(json_response)

lookup_tx(connector, response, txid) ==
    LET json_response == fetch_tx(response, txid)
    IN  IF json_response.kind = "raise" THEN json_response
        ELSE parse_tx(connector, json_response.value)

\* the answers a provider may give to a transaction request in a lookup
SampleOutputs(zero, other) ==
    {<<>>, <<zero[1]>>, <<zero[2]>>, <<other, zero[1]>>}

LookupBodies(connector) ==
    IF connector.class = "BlockchainInfoConnector"
    THEN {[time |-> 1500000000, inputs |-> <<[prev_out |-> [addr |-> "issuer1"]]>>,
           out |-> o] :
            o \in SampleOutputs(
                     <<[value |-> 0, script |-> HexString(MaxPayloadLen)],
                       [value |-> 0, script |-> HexString(2)]>>,
                     [value |-> 1, spent |-> TRUE, addr |-> "addr1"])}
    ELSE IF connector.class = "BlockcypherConnector"
    THEN {[received |-> 1500000000, inputs |-> <<[addresses |-> <<"issuer1">>]>>,
           outputs |-> o] :
            o \in SampleOutputs(
                     <<[value |-> 0, data_hex |-> HexString(MaxPayloadLen)],
                       [value |-> 0, data_hex |-> <<>>]>>,
                     [value |-> 1, spent_by |-> TRUE, addresses |-> <<"addr1">>])}
    ELSE {[tx |-> "any"]}

LookupResponses(connector) ==
    {TransportFailure} \cup {HttpResponse(404, None)}
    \cup {HttpResponse(200, b) : b \in LookupBodies(connector)}

(***************************************************************************)
(* EtherscanConnector.parse_tx.  The answers of the explorer: a body       *)
(* without `result', or a result whose input and blockNumber may be null   *)
(* or empty.                                                               *)
(***************************************************************************)
EtherscanInputs == {None, Str(<<>>), Str(<<"0", "x", "a", "b">>)}
EtherscanBlockNumbers == {None, Str(<<>>), Str(<<"0", "x", "0">>), Str(<<"0", "x", "1", "f">>)}

EtherscanBodies ==
    {[message |-> "NOTOK"]}
    \cup {[result |-> [from |-> "0xissuer", input |-> i, blockNumber |-> b]] :
            i \in EtherscanInputs, b \in EtherscanBlockNumbers}

EtherscanResponses ==
    {TransportFailure} \cup {HttpResponse(404, None)}
    \cup {HttpResponse(200, b) : b \in EtherscanBodies}

TimestampResponses ==
    {TransportFailure} \cup {HttpResponse(404, None)}
    \cup {HttpResponse(200, [result |-> [timeStamp |-> <<"1", "5", "0", "9">>]])}

Etherscan_parse_head_NoBlockCheck(connector, json_response) ==
    IF "result" \notin DOMAIN json_response
    THEN PyError("KeyError", "result")
    ELSE LET script == json_response.result.input
             block_no == json_response.result.blockNumber
         IN  IF Not(script)
             THEN InvalidTransactionError("transaction response is missing input")
             ELSE Ret(Request(connector.timestamp_url,
                              IF Not(block_no) THEN 0 ELSE ParseInt(block_no.s, 16)))

\* the part of parse_tx before the block timestamp request: the exception
\* raised there, or Ret of the url of the request to issue
Etherscan_parse_head(connector, json_response) ==
    IF "result" \notin DOMAIN json_response
    THEN PyError("KeyError", "result")
    ELSE LET script == json_response.result.input
             block_no == json_response.result.blockNumber
         IN  IF Not(script)
             THEN InvalidTransactionError("transaction response is missing input")
             ELSE IF Not(block_no)
             THEN InvalidTransactionError("transaction is not yet confirmed")
             ELSE Ret(Request(connector.timestamp_url, ParseInt(block_no.s, 16)))

\* the part of parse_tx after the block timestamp request
Etherscan_parse_tail(json_response, r) ==
    IF r.net = "raise"
    THEN PyError("ConnectionError", "requests.get failed")
    ELSE IF r.status_code # 200
    THEN InvalidTransactionError("error looking up block timestamp")
    ELSE LET date_time == r.body.result.timeStamp
         IN  Ret(TransactionData(json_response.result.from,
                                 json_response.result.input.s,
                                 ParseInt(date_time, 10), None))

(***************************************************************************)
(* get_remote_json                                                         *)
(***************************************************************************)
get_remote_json(r) ==
    IF r.net = "raise"
    THEN PyError("ConnectionError", "requests.get failed")
    ELSE IF r.status_code # 200
    THEN Ret(None)
    ELSE Ret(r.body)

(***************************************************************************)
(* Issuer profiles and revocation lists as remote documents                *)
(***************************************************************************)
PUBKEY_PREFIX == <<"e", "c", "d", "s", "a", "-", "k", "o", "b", "l", "i", "t", "z", "-",
                   "p", "u", "b", "k", "e", "y", ":">>

KeyStrings == {<<"1", "K", "e", "y", "A">>, <<"m", "K", "e", "y", "B">>}

\* entries of `publicKey' (current format)
PublicKeyEntries ==
    {[id |-> PUBKEY_PREFIX \o <<"1", "K", "e", "y", "A">>],
     [id |-> PUBKEY_PREFIX \o <<"m", "K", "e", "y", "B">>,
      created |-> Str("2017-01-01"), revoked |-> Str("2018-01-01")]}

\* entries of `publicKeys' (v2 alpha format)
PublicKeysEntries ==
    {[publicKey |-> PUBKEY_PREFIX \o <<"1", "K", "e", "y", "A">>],
     [publicKey |-> PUBKEY_PREFIX \o <<"m", "K", "e", "y", "B">>,
      created |-> Str("2017-01-01"), expires |-> Str("2019-01-01")]}

\* entries of `issuerKeys' and `revocationKeys' (V1 format)
V1KeyEntries == {[key |-> k] : k \in KeyStrings}

\* an optional field of a document: absent, or present with a value of S
Optional(name, S) == {<<>>} \cup {name :> v : v \in S}

ContextProfiles ==
    {("@context" :> "https://w3id.org/blockcerts/v2") @@ a @@ b :
        a \in Optional("publicKey", SeqsUpTo(PublicKeyEntries, MaxKeys)),
        b \in Optional("publicKeys", SeqsUpTo(PublicKeysEntries, MaxKeys))}

LegacyProfiles ==
    {("id" :> "https://issuer.example") @@ a @@ b :
        a \in Optional("issuerKeys", SeqsUpTo(V1KeyEntries, MaxKeys)),
        b \in Optional("revocationKeys", SeqsUpTo(V1KeyEntries, MaxKeys))}

IssuerProfiles == {Dict(d) : d \in ContextProfiles \cup LegacyProfiles} \cup {EmptyDict}

IssuerResponses ==
    {TransportFailure} \cup {HttpResponse(404, None)}
    \cup {HttpResponse(200, b) : b \in IssuerProfiles}

AssertionIds == {"urn:uuid:r1", "urn:uuid:r2"}

RevocationLists ==
    {EmptyDict, Dict("id" :> "https://issuer.example/revocation"),
     Dict("revokedAssertions" :> None)}
    \cup {Dict("revokedAssertions" :> List(l)) :
            l \in SeqsUpTo({[id |-> a] : a \in AssertionIds}, MaxRevoked)}

RevocationResponses ==
    {TransportFailure} \cup {HttpResponse(404, None)}
    \cup {HttpResponse(200, b) : b \in RevocationLists}

BlockcertVersions == {"V1_2", "V2_ALPHA", "V2"}

\* certificate_model: its version, the issuer id, and whether
\* certificate_json['badge']['issuer'] has a revocationList
CertificateModels ==
    {[version |-> v, issuer_id |-> "https://issuer.example", revocationList |-> r] :
        v \in BlockcertVersions, r \in BOOLEAN}

(***************************************************************************)
(* get_issuer_info, in the three parts its two requests separate           *)
(***************************************************************************)
get_field_or_default(data, field_name) ==
    IF field_name \in DOMAIN data THEN data[field_name] ELSE None

IssuerKey(pk, created, expires, revoked) ==
    [public_key |-> pk, created |-> created, expires |-> expires, revoked |-> revoked]

IssuerInfo(issuer_keys, revoked, revocation_keys) ==
    [kind |-> "IssuerInfo", issuer_keys |-> issuer_keys,
     revoked_assertions |-> revoked, revocation_keys |-> revocation_keys]

\* lines 207-209: what the profile request leaves
issuer_profile(r) ==
    LET issuer_json == get_remote_json(r)
    IN  IF issuer_json.kind = "raise" THEN issuer_json
        ELSE IF Not(issuer_json.value)
        THEN PyError("Exception", "Issuer URL returned no results")
        ELSE issuer_json

\* line 213-215: whether the revocation list is fetched
fetches_revocation_list(certificate_model) ==
    LET v2ish == certificate_model.version = "V2" \/ certificate_model.version = "V2_ALPHA"
    IN  v2ish /\ certificate_model.revocationList

\* lines 217-219: the revoked assertions the revocation list request leaves
collect_revoked_assertions(r) ==
    LET revoked_json == get_remote_json(r)
    IN  IF revoked_json.kind = "raise" THEN revoked_json
        ELSE IF Not(revoked_json.value) THEN Ret(<<>>)
        ELSE IF "revokedAssertions" \notin DOMAIN revoked_json.value.d
        THEN PyError("KeyError", "revokedAssertions")
        ELSE IF Not(revoked_json.value.d["revokedAssertions"]) THEN Ret(<<>>)
        ELSE LET l == revoked_json.value.d["revokedAssertions"].items
             IN  Ret([i \in 1..Len(l) |-> l[i].id])

\* lines 225-230 and 233-239: one IssuerKey per entry
KeysOf(entries, field) ==
    [i \in 1..Len(entries) |->
        IssuerKey(Drop(entries[i][field], Len(PUBKEY_PREFIX)),
                  get_field_or_default(entries[i], "created"),
                  get_field_or_default(entries[i], "expires"),
                  get_field_or_default(entries[i], "revoked"))]

\* lines 243-250: the V1 issuer format
parse_v1_issuer_AlwaysRevocationKeys(issuer_json, revoked) ==
    IF "issuerKeys" \notin DOMAIN issuer_json
    THEN PyError("KeyError", "issuerKeys")
    ELSE IF issuer_json["issuerKeys"] = <<>>
    THEN PyError("IndexError", "list index out of range")
    ELSE LET issuer_key == IssuerKey(issuer_json["issuerKeys"][1].key, None, None, None)
         IN  IF "revocationKeys" \notin DOMAIN issuer_json
             THEN PyError("KeyError", "revocationKeys")
             ELSE IF issuer_json["revocationKeys"] = <<>>
             THEN PyError("IndexError", "list index out of range")
             ELSE LET revocation_key ==
                          IssuerKey(issuer_json["revocationKeys"][1].key, None, None, None)
                  IN  Ret(IssuerInfo(<<issuer_key>>, revoked, <<revocation_key>>))

parse_v1_issuer(issuer_json, revoked) ==
    IF "issuerKeys" \notin DOMAIN issuer_json
    THEN PyError("KeyError", "issuerKeys")
    ELSE IF issuer_json["issuerKeys"] = <<>>
    THEN PyError("IndexError", "list index out of range")
    ELSE LET issuer_key == IssuerKey(issuer_json["issuerKeys"][1].key, None, None, None)
         IN  IF revoked # <<>>
             THEN Ret(IssuerInfo(<<issuer_key>>, revoked, <<>>))
             ELSE IF "revocationKeys" \notin DOMAIN issuer_json
             THEN PyError("KeyError", "revocationKeys")
             ELSE IF issuer_json["revocationKeys"] = <<>>
             THEN PyError("IndexError", "list index out of range")
             ELSE LET revocation_key ==
                          IssuerKey(issuer_json["revocationKeys"][1].key, None, None, None)
                  IN  Ret(IssuerInfo(<<issuer_key>>, <<>>, <<revocation_key>>))

\* lines 221-250
parse_issuer_keys(issuer_json, revoked) ==
    IF "@context" \in DOMAIN issuer_json
    THEN LET issuer_keys ==
                 IF "publicKey" \in DOMAIN issuer_json
                 THEN KeysOf(issuer_json["publicKey"], "id")
                 ELSE IF "publicKeys" \in DOMAIN issuer_json
                 THEN KeysOf(issuer_json["publicKeys"], "publicKey")
                 ELSE <<>>
         IN  Ret(IssuerInfo(issuer_keys, revoked, <<>>))
    ELSE parse_v1_issuer(issuer_json, revoked)

(***************************************************************************)
(* State                                                                   *)
(***************************************************************************)
VARIABLES
    pc,          \* where the caller is
    chain,       \* the chain createTransactionLookupConnector was called with
    connector,   \* the object createTransactionLookupConnector returned
    txid,        \* the transaction id of the lookup in progress
    idx,         \* FallbackConnector.lookup_tx: index of the next adapter
    exceptions,  \* FallbackConnector.lookup_tx: the exceptions list
    attempts,    \* history: the adapters invoked and what each one did
    json_resp,   \* EtherscanConnector: the body of the transaction request
    requests,    \* history: the network requests issued, in order
    cert,        \* get_issuer_info: certificate_model
    issuer_json, \* get_issuer_info: the issuer profile fetched
    revoked_assertions, \* get_issuer_info: the list of that name
    revocation_response, \* history: the answer to the revocation list request
    outcome      \* what the call in progress returned or raised

vars == <<pc, chain, connector, txid, idx, exceptions, attempts, json_resp, requests,
          cert, issuer_json, revoked_assertions, revocation_response, outcome>>

lookupVars == <<chain, connector, txid, idx, exceptions, attempts, json_resp>>
issuerVars == <<cert, issuer_json, revoked_assertions, revocation_response>>

NoChain == Chain("", "")
NoConnector == [class |-> ""]
NoResponse == [net |-> ""]

Init ==
    /\ pc = "idle"
    /\ chain = NoChain
    /\ connector = NoConnector
    /\ txid = ""
    /\ idx = 0
    /\ exceptions = <<>>
    /\ attempts = <<>>
    /\ json_resp = None
    /\ requests = <<>>
    /\ cert = None
    /\ issuer_json = None
    /\ revoked_assertions = <<>>
    /\ revocation_response = NoResponse
    /\ outcome = Running

(***************************************************************************)
(* createTransactionLookupConnector(chain, options)                        *)
(***************************************************************************)
CreateConnector ==
    /\ pc = "idle"
    /\ \E c \in Chains, options \in OptionsSet :
          LET made == createTransactionLookupConnector(c, options)
          IN  /\ chain' = c
              /\ IF made.kind = "raise"
                 THEN /\ pc' = "construct_failed"
                      /\ outcome' = made
                      /\ connector' = connector
                 ELSE /\ pc' = "created"
                      /\ connector' = made.value
                      /\ outcome' = Running
    /\ UNCHANGED <<txid, idx, exceptions, attempts, json_resp, requests, issuerVars>>

\* the connectors attribute of a FallbackConnector is a plain list that the
\* caller may replace by its own adapters
AdaptersFor(c) ==
    {BlockchainInfoConnector(c).value, BlockcypherConnector(c).value,
     InheritingConnector}

SetConnectors ==
    /\ pc = "created"
    /\ connector.class = "FallbackConnector"
    /\ \E n \in 1..MaxAdapters :
          \E cs \in [1..n -> AdaptersFor(connector.chain)] :
             /\ cs # connector.connectors
             /\ connector' = [connector EXCEPT !.connectors = cs]
    /\ pc' = "configured"
    /\ UNCHANGED <<chain, txid, idx, exceptions, attempts, json_resp, requests, issuerVars, outcome>>

(***************************************************************************)
(* MockConnector.lookup_tx                                                 *)
(***************************************************************************)
MockLookup ==
    /\ pc = "created"
    /\ connector.class = "MockConnector"
    /\ \E t \in TxIds : txid' = t
    /\ outcome' = Ret(True)
    /\ pc' = "done"
    /\ UNCHANGED <<chain, connector, idx, exceptions, attempts, json_resp, requests, issuerVars>>

(***************************************************************************)
(* FallbackConnector.lookup_tx: entry, then one action per iteration of    *)
(* the loop; the iteration that exhausts the list also raises              *)
(***************************************************************************)
FallbackLookup ==
    /\ pc \in {"created", "configured"}
    /\ connector.class = "FallbackConnector"
    /\ \E t \in TxIds : txid' = t
    /\ exceptions' = <<>>
    /\ idx' = 1
    /\ pc' = "fallback_loop"
    /\ UNCHANGED <<chain, connector, attempts, json_resp, requests, issuerVars, outcome>>

FallbackStep_NoShortCircuit(excs, answer) ==
    IF answer.kind = "raise"
    THEN [returns |-> FALSE, exceptions |-> Append(excs, answer)]
    ELSE [returns |-> FALSE, exceptions |-> excs]

\* what one iteration does with the adapter's answer: the new exceptions
\* list and whether the coordinator returns
FallbackStep(excs, answer) ==
    IF answer.kind = "raise"
    THEN [returns |-> FALSE, exceptions |-> Append(excs, answer)]
    ELSE IF Truthy(answer.value)
    THEN [returns |-> TRUE, exceptions |-> excs]
    ELSE [returns |-> FALSE, exceptions |-> excs]

FallbackAttempt ==
    /\ pc = "fallback_loop"
    /\ idx <= Len(connector.connectors)
    /\ LET adapter == connector.connectors[idx] IN
       \E response \in LookupResponses(adapter) :
          LET answer == lookup_tx(adapter, response, txid)
              step == FallbackStep(exceptions, answer)
          IN  /\ requests' = Append(requests, Request(adapter.url, txid))
              /\ attempts' = Append(attempts, [adapter |-> adapter.class, answer |-> answer])
              /\ exceptions' = step.exceptions
              /\ idx' = idx + 1
              /\ IF step.returns
                 THEN /\ outcome' = Ret(answer.value)
                      /\ pc' = "done"
                 ELSE IF idx = Len(connector.connectors)
                 THEN /\ outcome' = Exc("InvalidTransactionError", "", step.exceptions)
                      /\ pc' = "done"
                 ELSE /\ outcome' = outcome
                      /\ pc' = "fallback_loop"
    /\ UNCHANGED <<chain, connector, txid, json_resp, issuerVars>>

(***************************************************************************)
(* parse_tx of a UTXO adapter, called on a response body                   *)
(***************************************************************************)
ParseTx ==
    /\ pc = "idle"
    /\ \E made \in {BlockchainInfoConnector(bitcoin_mainnet),
                    BlockcypherConnector(bitcoin_mainnet)} :
          \E body \in IF made.value.class = "BlockchainInfoConnector"
                      THEN BlockchainInfoBodies ELSE BlockcypherBodies :
             /\ connector' = made.value
             /\ json_resp' = body
             /\ outcome' = parse_tx(made.value, body)
    /\ pc' = "parsed"
    /\ UNCHANGED <<chain, txid, idx, exceptions, attempts, requests, issuerVars>>

(***************************************************************************)
(* EtherscanConnector.lookup_tx: fetch_tx, then parse_tx                   *)
(***************************************************************************)
EtherscanFetch ==
    /\ pc = "created"
    /\ connector.class = "EtherscanConnector"
    /\ \E t \in TxIds, response \in EtherscanResponses :
          LET json_response == fetch_tx(response, t)
          IN  /\ txid' = t
              /\ requests' = Append(requests, Request(connector.url, t))
              /\ IF json_response.kind = "raise"
                 THEN /\ outcome' = json_response
                      /\ json_resp' = json_resp
                      /\ pc' = "done"
                 ELSE /\ outcome' = outcome
                      /\ json_resp' = json_response.value
                      /\ pc' = "etherscan_parse"
    /\ UNCHANGED <<chain, connector, idx, exceptions, attempts, issuerVars>>

EtherscanParse ==
    /\ pc = "etherscan_parse"
    /\ LET head == Etherscan_parse_head(connector, json_resp)
       IN  IF head.kind = "raise"
           THEN /\ outcome' = head
                /\ requests' = requests
           ELSE \E r \in TimestampResponses :
                   /\ requests' = Append(requests, head.value)
                   /\ outcome' = Etherscan_parse_tail(json_resp, r)
    /\ pc' = "done"
    /\ UNCHANGED <<chain, connector, txid, idx, exceptions, attempts, json_resp, issuerVars>>

(***************************************************************************)
(* get_issuer_info(certificate_model)                                      *)
(***************************************************************************)
\* lines 207-215: the profile request and the choice of the next step
GetIssuerInfo ==
    /\ pc = "idle"
    /\ \E c \in CertificateModels, r \in IssuerResponses :
          LET profile == issuer_profile(r)
          IN  /\ cert' = c
              /\ requests' = Append(requests, Request(c.issuer_id, ""))
              /\ IF profile.kind = "raise"
                 THEN /\ outcome' = profile
                      /\ issuer_json' = issuer_json
                      /\ pc' = "done"
                 ELSE /\ outcome' = outcome
                      /\ issuer_json' = profile.value
                      /\ pc' = IF fetches_revocation_list(c)
                               THEN "issuer_revocation" ELSE "issuer_keys"
    /\ revoked_assertions' = <<>>
    /\ UNCHANGED <<lookupVars, revocation_response>>

\* lines 216-219: the revocation list request
FetchRevocationList ==
    /\ pc = "issuer_revocation"
    /\ \E r \in RevocationResponses :
          LET collected == collect_revoked_assertions(r)
          IN  /\ requests' = Append(requests, Request("revocationList", ""))
              /\ revocation_response' = r
              /\ IF collected.kind = "raise"
                 THEN /\ outcome' = collected
                      /\ revoked_assertions' = revoked_assertions
                      /\ pc' = "done"
                 ELSE /\ outcome' = outcome
                      /\ revoked_assertions' = collected.value
                      /\ pc' = "issuer_keys"
    /\ UNCHANGED <<lookupVars, cert, issuer_json>>

\* lines 221-250: the keys
ParseIssuerKeys ==
    /\ pc = "issuer_keys"
    /\ outcome' = parse_issuer_keys(issuer_json.d, revoked_assertions)
    /\ pc' = "done"
    /\ UNCHANGED <<lookupVars, requests, issuerVars>>

Next ==
    \/ CreateConnector
    \/ SetConnectors
    \/ MockLookup
    \/ FallbackLookup
    \/ FallbackAttempt
    \/ ParseTx
    \/ EtherscanFetch
    \/ EtherscanParse
    \/ GetIssuerInfo
    \/ FetchRevocationList
    \/ ParseIssuerKeys

Spec == Init /\ [][Next]_vars

(***************************************************************************)
(* Properties of FallbackConnector.lookup_tx                               *)
(***************************************************************************)
InFallback == connector.class = "FallbackConnector" /\ pc \in {"fallback_loop", "done"}

\* attempt i of the lookup in progress produced a result the coordinator
\* accepts (returned, and truthy)
Succeeded(i) ==
    attempts[i].answer.kind = "return" /\ Truthy(attempts[i].answer.value)

FactoryOrder == <<"BlockchainInfoConnector", "BlockcypherConnector">>

\* C1: the fallback coordinator built by the factory holds the
\* blockchain.info adapter first and the blockcypher adapter second; a
\* lookup invokes the adapters in list order, one request each, and stops
\* at the first adapter that succeeds: that adapter's result is what the
\* lookup returns, no later adapter is invoked and no aggregate is raised.
C1_FallbackOrderShortCircuit ==
    /\ (pc = "created" /\ connector.class = "FallbackConnector")
          => [i \in 1..Len(connector.connectors) |-> connector.connectors[i].class]
                = FactoryOrder
    /\ InFallback =>
          /\ Len(attempts) <= Len(connector.connectors)
          /\ Len(requests) = Len(attempts)
          /\ \A i \in 1..Len(attempts) :
                /\ attempts[i].adapter = connector.connectors[i].class
                /\ requests[i] = Request(connector.connectors[i].url, txid)
                /\ Succeeded(i) =>
                      /\ i = Len(attempts)
                      /\ pc = "done"
                      /\ outcome = Ret(attempts[i].answer.value)
          /\ (pc = "fallback_loop") => \A i \in 1..Len(attempts) : ~Succeeded(i)

\* the first adapter of the factory's list failed, the second succeeded,
\* and the lookup returned the second adapter's record
C1_Witness ==
    /\ InFallback /\ pc = "done"
    /\ [i \in 1..Len(connector.connectors) |-> connector.connectors[i].class] = FactoryOrder
    /\ Len(attempts) = 2
    /\ attempts[1].answer.kind = "raise"
    /\ Succeeded(2)
    /\ outcome = Ret(attempts[2].answer.value)

\* C2: a lookup in which every adapter failed to produce a result raises
\* one InvalidTransactionError whose payload lists the failures, one per
\* configured adapter, in list order.
C2_AggregateOnePerAdapter ==
    (InFallback /\ pc = "done" /\ outcome.kind = "raise") =>
        /\ outcome.type = "InvalidTransactionError"
        /\ Len(outcome.causes) = Len(connector.connectors)
        /\ \A i \in 1..Len(outcome.causes) :
              attempts[i].answer.kind = "raise" /\ outcome.causes[i] = attempts[i].answer

\* C9: an adapter that returned an empty result is passed over like one
\* that raised, and its attempt is recorded: the exceptions list has one
\* entry for every attempt that did not succeed.
C9_EmptyResultRecorded ==
    InFallback =>
        /\ \A i \in 1..Len(attempts) :
              (attempts[i].answer.kind = "return" /\ ~Truthy(attempts[i].answer.value))
                 => outcome # Ret(attempts[i].answer.value)
        /\ Len(exceptions) = Cardinality({i \in 1..Len(attempts) : ~Succeeded(i)})

(***************************************************************************)
(* Properties of get_issuer_info                                           *)
(***************************************************************************)
\* the revocation list request failed: transport failure, a status other
\* than 200, or a body without a usable revokedAssertions collection
RevocationFetchFailed(r) ==
    \/ r.net = "raise"
    \/ r.net = "response" /\ r.status_code # 200
    \/ r.net = "response" /\ r.status_code = 200
          /\ \/ "revokedAssertions" \notin DOMAIN r.body.d
             \/ Not(r.body.d["revokedAssertions"])

\* C3: a failed revocation list request never ends the resolution: the
\* step that issues it goes on to key parsing with no revoked assertions.
C3_RevocationFailureDegrades ==
    [][(pc = "issuer_revocation" /\ RevocationFetchFailed(revocation_response'))
          => (pc' = "issuer_keys" /\ outcome' = Running /\ revoked_assertions' = <<>>)]_vars

\* C4: every IssuerInfo that get_issuer_info returns holds at least one key.
C4_AtLeastOneKey ==
    (outcome.kind = "return" /\ outcome.value.kind = "IssuerInfo")
        => Len(outcome.value.issuer_keys) >= 1

V1Key(entry) == IssuerKey(entry.key, None, None, None)

\* C8: for a profile without @context, a returned IssuerInfo holds exactly
\* one key, the first of issuerKeys.  With no revoked assertions collected
\* it also holds one revocation key, the first of revocationKeys.  With
\* revoked assertions collected it holds those and no revocation keys, and
\* it is returned whether or not the profile has revocationKeys.
C8_LegacyProfile ==
    (pc = "done" /\ issuer_json.kind = "dict" /\ "@context" \notin DOMAIN issuer_json.d) =>
        LET profile == issuer_json.d IN
        /\ outcome.kind = "return" =>
              /\ outcome.value.issuer_keys = <<V1Key(profile["issuerKeys"][1])>>
              /\ revoked_assertions = <<>> =>
                    /\ outcome.value.revocation_keys = <<V1Key(profile["revocationKeys"][1])>>
                    /\ outcome.value.revoked_assertions = <<>>
              /\ revoked_assertions # <<>> =>
                    /\ outcome.value.revocation_keys = <<>>
                    /\ outcome.value.revoked_assertions = revoked_assertions
        /\ (/\ revoked_assertions # <<>>
            /\ "issuerKeys" \in DOMAIN profile
            /\ profile["issuerKeys"] # <<>>) => outcome.kind = "return"

\* a V2 credential with a legacy profile that has no revocationKeys, and
\* revoked assertions collected: keys only
C8_Witness ==
    /\ pc = "done" /\ issuer_json.kind = "dict"
    /\ DOMAIN issuer_json.d = {"id", "issuerKeys"}
    /\ Len(issuer_json.d["issuerKeys"]) = 2
    /\ Len(revoked_assertions) = 2
    /\ outcome.kind = "return"
    /\ outcome.value.revocation_keys = <<>>
    /\ Len(outcome.value.issuer_keys) = 1

(***************************************************************************)
(* Properties of the factory and of the mock connector                     *)
(***************************************************************************)
SandboxChains == {mockchain, bitcoin_regtest}

\* what holds of every state once the factory was asked for a sandbox chain
SandboxState ==
    /\ (chain \in SandboxChains) =>
          /\ connector.class = "MockConnector"
          /\ pc \in {"created", "done"}
          /\ requests = <<>>
          /\ attempts = <<>>
          /\ pc = "done" => (outcome = Ret(True) /\ txid \in TxIds)
    /\ connector.class = "MockConnector" => chain \in SandboxChains

UnsupportedChain(o) ==
    o.kind = "raise" /\ o.type = "Exception"
    /\ o \in {BlockchainInfoConnector(NoChain), BlockcypherConnector(NoChain),
              EtherscanConnector(NoChain, "")}

\* C7: the factory gives a MockConnector for the sandbox chains, one
\* EtherscanConnector for ethereum mainnet and ropsten, and a
\* FallbackConnector over the blockchain.info and blockcypher adapters, in
\* that order, for bitcoin mainnet and testnet.  For a chain of the
\* ethereum family that Etherscan has no mapping for, and for a chain of
\* any other family, the factory call itself raises `unsupported chain':
\* no connector is returned, no request is issued, and a lookup never ends
\* with that exception.
C7_FactorySelection ==
    (pc # "idle" /\ chain # NoChain) =>
        /\ chain \in SandboxChains => connector.class = "MockConnector"
        /\ chain \in {ethereum_mainnet, ethereum_ropsten} =>
              /\ connector.class = "EtherscanConnector"
              /\ "connectors" \notin DOMAIN connector
        /\ chain \in {bitcoin_mainnet, bitcoin_testnet} =>
              /\ connector.class = "FallbackConnector"
              /\ pc = "created" =>
                    [i \in 1..Len(connector.connectors) |-> connector.connectors[i].class]
                       = FactoryOrder
        /\ chain \in {ethereum_goerli, litecoin_mainnet} =>
              /\ pc = "construct_failed"
              /\ connector = NoConnector
              /\ UnsupportedChain(outcome)
              /\ requests = <<>>
        /\ chain.blockchain_type \notin {"bitcoin"} => connector.class # "FallbackConnector"
        /\ chain.blockchain_type = "ethereum" => connector.class \in {"EtherscanConnector", ""}
        /\ pc # "construct_failed" => ~UnsupportedChain(outcome)

\* the factory was asked for a chain of a family with no connector
C7_Witness ==
    /\ chain = litecoin_mainnet /\ pc = "construct_failed"
    /\ outcome = BlockchainInfoConnector(litecoin_mainnet)

(***************************************************************************)
(* Properties of parse_tx of the two UTXO adapters                         *)
(***************************************************************************)
IsBlockchainInfo == connector.class = "BlockchainInfoConnector"
ParsedOutputs == IF IsBlockchainInfo THEN json_resp.out ELSE json_resp.outputs

\* parse_tx was called on a body with exactly one zero-value output
OneZeroValueOutput ==
    /\ pc = "parsed"
    /\ Cardinality(ZeroValueOutputs(ParsedOutputs)) = 1

TheZeroValueOutput == ParsedOutputs[CHOOSE i \in ZeroValueOutputs(ParsedOutputs) : TRUE]

\* C6, as claimed: with exactly one zero-value output, parse_tx returns a
\* record whose script is that output's script field (blockchain.info) or
\* data_hex field (blockcypher), whatever the payload.
C6_PayloadReturnedAsIs ==
    (OneZeroValueOutput /\ json_resp.inputs # <<>>) =>
        /\ outcome.kind = "return"
        /\ outcome.value.script = IF IsBlockchainInfo THEN TheZeroValueOutput.script
                                  ELSE TheZeroValueOutput.data_hex

\* what parse_tx takes from the zero-value output: the script without its
\* first four characters, or data_hex as it is
ExpectedScript ==
    IF IsBlockchainInfo
    THEN LET sc == TheZeroValueOutput.script
         IN  [i \in 1..(IF Len(sc) > 4 THEN Len(sc) - 4 ELSE 0) |-> sc[i + 4]]
    ELSE TheZeroValueOutput.data_hex

\* C6, amended: a record is returned only when the extracted value is not
\* empty, and then holds it; when it is empty parse_tx raises
\* InvalidTransactionError.
C6_ExtractedPayload ==
    OneZeroValueOutput =>
        /\ outcome.kind = "return" =>
              /\ outcome.value.script = ExpectedScript
              /\ ExpectedScript # <<>>
        /\ json_resp.inputs # <<>> =>
              IF ExpectedScript = <<>>
              THEN outcome = InvalidTransactionError(
                                 "transaction response is missing op_return script")
              ELSE outcome.kind = "return"

\* blockchain.info: the zero-value output comes second, after a spent
\* output, and its script is longer than four characters
C6_Witness ==
    /\ OneZeroValueOutput /\ IsBlockchainInfo
    /\ Len(json_resp.out) = 2
    /\ ZeroValueOutputs(json_resp.out) = {2}
    /\ Get(json_resp.out[1], "spent", FALSE)
    /\ outcome.kind = "return"
    /\ outcome.value.script = <<"d", "e">>
    /\ outcome.value.revoked_addresses # {}

(***************************************************************************)
(* Properties of EtherscanConnector.lookup_tx                              *)
(***************************************************************************)
InEtherscan == connector.class = "EtherscanConnector" /\ pc \in {"etherscan_parse", "done"}

HasResult == "result" \in DOMAIN json_resp
NoBlockNumber == HasResult /\ Not(json_resp.result.blockNumber)
Unconfirmed == InvalidTransactionError("transaction is not yet confirmed")

\* the block timestamp request is the second request, issued only after a
\* transaction request whose answer carries an input and a block number
SecondFetchAfterFirst ==
    InEtherscan =>
        /\ Len(requests) \in 1..2
        /\ requests[1] = Request(connector.url, txid)
        /\ Len(requests) = 2 =>
              /\ pc = "done"
              /\ HasResult /\ ~Not(json_resp.result.blockNumber)
              /\ requests[2] = Request(connector.timestamp_url,
                                       ParseInt(json_resp.result.blockNumber.s, 16))

\* C10, as claimed: whenever the answer carries no block number, the
\* lookup fails as unconfirmed and no second request is issued.
C10_NoBlockNumberIsUnconfirmed ==
    /\ SecondFetchAfterFirst
    /\ (InEtherscan /\ pc = "done" /\ NoBlockNumber) =>
          (outcome = Unconfirmed /\ Len(requests) = 1)

\* C10, amended: without a block number the lookup fails and no second
\* request is issued; the failure is `not yet confirmed' when the answer
\* carries an input, and `missing input' when it carries none.
C10_SequentialFetch ==
    /\ SecondFetchAfterFirst
    /\ (InEtherscan /\ pc = "done" /\ NoBlockNumber) =>
          /\ Len(requests) = 1
          /\ outcome = IF Not(json_resp.result.input)
                       THEN InvalidTransactionError("transaction response is missing input")
                       ELSE Unconfirmed

\* the answer carried an input and a null block number
C10_Witness ==
    /\ InEtherscan /\ pc = "done"
    /\ HasResult /\ json_resp.result.blockNumber = None
    /\ ~Not(json_resp.result.input)
    /\ outcome = Unconfirmed /\ Len(requests) = 1

=============================================================================
